---- MODULE Spec2Model ----
(***************************************************************************)
(* Model of the two FASTA utilities of the repository:                     *)
(*   reordercontigs.py  - reorder the records of a FASTA by an order list  *)
(*   checkforNs.py      - report the runs of N of every record             *)
(* A text is a sequence of one-character strings, a file a sequence of     *)
(* lines (texts without the line terminator).                              *)
(***************************************************************************)
EXTENDS Integers, Sequences, FiniteSets, TLC

VARIABLES
    \* ---- reordercontigs.py ----
    fasta,            \* lines of the file given with -f
    orderFile,        \* lines of the file given with -o
    wrap,             \* args.wrap
    pc,               \* position in main()
    run,              \* 1 = first invocation, 2 = invocation on its own output
    headers,          \* parse_fasta: header list
    seqs,             \* parse_fasta: dict header -> sequence
    name_to_headers,  \* dict first token -> list of headers
    order_list,       \* read_order_list result
    k,                \* number of order entries processed by the for loop
    ordered_headers,
    used,
    not_found,
    outLines,         \* lines written to args.output
    appended,
    \* ---- write_seq on its own ----
    w_header, w_seq, w_wrap, w_lines, w_pc,
    \* ---- checkforNs.py ----
    s_lines,          \* lines of the assembly FASTA
    s_pc,             \* position in the module-level script
    g_pos,            \* parse_fasta generator: number of lines consumed
    g_hasName,        \* parse_fasta generator: name is not None
    g_name,           \* parse_fasta generator: name
    g_seq_lines,      \* parse_fasta generator: seq_lines
    g_susp,           \* parse_fasta generator: where it is suspended
    rec_name,         \* loop variable name
    rec_seq,          \* loop variable seq
    rec_no,           \* number of records yielded so far
    events            \* rows written to the two reports, in write order

rvars == <<fasta, orderFile, wrap, pc, run, headers, seqs, name_to_headers,
           order_list, k, ordered_headers, used, not_found, outLines,
           appended>>
wvars == <<w_header, w_seq, w_wrap, w_lines, w_pc>>
svars == <<s_lines, s_pc, g_pos, g_hasName, g_name, g_seq_lines, g_susp,
           rec_name, rec_seq, rec_no, events>>
vars == <<rvars, wvars, svars>>

(***************************************************************************)
(* Bounds of the model                                                     *)
(***************************************************************************)
MaxFastaLines == 3
MaxOrderLines == 2
MaxRoundLines == 4
MaxSeqLen == 4
MaxWrap == 3
MaxScanLines == 4

(***************************************************************************)
(* Text helpers (Python str methods)                                       *)
(***************************************************************************)
Range(s) == {s[i] : i \in 1..Len(s)}

IsSpace(c) == c = " "

RECURSIVE LStrip(_)
LStrip(s) == IF s # <<>> /\ IsSpace(Head(s)) THEN LStrip(Tail(s)) ELSE s

RECURSIVE RStrip(_)
RStrip(s) ==
    IF s # <<>> /\ IsSpace(s[Len(s)]) THEN RStrip(SubSeq(s, 1, Len(s) - 1)) ELSE s

Strip(s) == LStrip(RStrip(s))

StartsWith(s, c) == s # <<>> /\ Head(s) = c

\* the leading run of non-whitespace characters of s
RECURSIVE Word(_)
Word(s) ==
    IF s = <<>> \/ IsSpace(Head(s)) THEN <<>> ELSE <<Head(s)>> \o Word(Tail(s))

\* str.split(): the whitespace-separated tokens of s
RECURSIVE Split(_)
Split(s) ==
    LET t == LStrip(s) IN
    IF t = <<>> THEN <<>>
    ELSE <<Word(t)>> \o Split(SubSeq(t, Len(Word(t)) + 1, Len(t)))

Upper(c) ==
    CASE c = "n" -> "N"
      [] c = "a" -> "A"
      [] c = "b" -> "B"
      [] c = "c" -> "C"
      [] OTHER -> c

\* UpperText without the call of upper()
UpperTextNone(s) == s

UpperText(s) == [i \in 1..Len(s) |-> Upper(s[i])]

\* ''.join(parts)
RECURSIVE Join(_)
Join(parts) == IF parts = <<>> THEN <<>> ELSE Head(parts) \o Join(Tail(parts))

\* d[key] = val on a dict modelled as a function
DictSet(d, key, val) ==
    [x \in DOMAIN d \cup {key} |-> IF x = key THEN val ELSE d[x]]

EmptyDict == [x \in {} |-> <<>>]

(***************************************************************************)
(* reordercontigs.py                                                       *)
(***************************************************************************)
DefaultWrap == 60

\* one iteration of the for loop of parse_fasta; st is the local state
ParseLine(st, line) ==
    IF line = <<>> THEN st
    ELSE IF StartsWith(line, ">") THEN
        [headers |-> Append(st.headers, Strip(Tail(line))),
         seqs |-> IF st.has_cur
                  THEN DictSet(st.seqs, st.cur_h, Join(st.cur_seq_parts))
                  ELSE st.seqs,
         has_cur |-> TRUE,
         cur_h |-> Strip(Tail(line)),
         cur_seq_parts |-> <<>>]
    ELSE [st EXCEPT !.cur_seq_parts = Append(@, Strip(line))]

RECURSIVE ParseLoop(_, _)
ParseLoop(st, lines) ==
    IF lines = <<>> THEN st ELSE ParseLoop(ParseLine(st, Head(lines)), Tail(lines))

parse_fasta(lines) ==
    LET st == ParseLoop([headers |-> <<>>, seqs |-> EmptyDict, has_cur |-> FALSE,
                         cur_h |-> <<>>, cur_seq_parts |-> <<>>], lines)
    IN [headers |-> st.headers,
        seqs |-> IF st.has_cur
                 THEN DictSet(st.seqs, st.cur_h, Join(st.cur_seq_parts))
                 ELSE st.seqs]

\* Chunks with slices one character too long (seq[i:i+wrap+1])
RECURSIVE ChunksOverlap(_, _, _)
ChunksOverlap(seq, i, w) ==
    IF i > Len(seq) THEN <<>>
    ELSE LET j == IF i + w < Len(seq) THEN i + w ELSE Len(seq)
         IN <<SubSeq(seq, i, j)>> \o ChunksOverlap(seq, i + w, w)

\* range(0, len(seq), wrap) slices of write_seq, from 1-based position i
RECURSIVE Chunks(_, _, _)
Chunks(seq, i, w) ==
    IF i > Len(seq) THEN <<>>
    ELSE LET j == IF i + w - 1 < Len(seq) THEN i + w - 1 ELSE Len(seq)
         IN <<SubSeq(seq, i, j)>> \o Chunks(seq, i + w, w)

\* the wrap test of write_seq
Wrapping(w) == w # 0 /\ w > 0

\* the lines write_seq writes
write_seq(header, seq, w) ==
    <<<<">">> \o header>> \o (IF Wrapping(w) THEN Chunks(seq, 1, w) ELSE <<seq>>)

\* one iteration of the for loop of read_order_list
OrderLine(order, ln) ==
    LET s == Strip(ln) IN
    IF s = <<>> \/ StartsWith(s, "#") THEN order
    ELSE IF StartsWith(s, ">") THEN Append(order, Strip(Tail(s)))
    ELSE Append(order, s)

RECURSIVE read_order_list(_)
read_order_list(lines) ==
    IF lines = <<>> THEN <<>>
    ELSE OrderLine(read_order_list(SubSeq(lines, 1, Len(lines) - 1)), lines[Len(lines)])

\* name_to_headers.setdefault(first, []).append(h)
IndexAdd(d, h) ==
    LET first == Split(h)[1] IN
    DictSet(d, first, IF first \in DOMAIN d THEN Append(d[first], h) ELSE <<h>>)

RECURSIVE BuildNameIndex(_)
BuildNameIndex(hs) ==
    IF hs = <<>> THEN EmptyDict
    ELSE IndexAdd(BuildNameIndex(SubSeq(hs, 1, Len(hs) - 1)), hs[Len(hs)])

\* h.split()[0] raises IndexError for a header without any token
IndexRaises(hs) == \E i \in 1..Len(hs) : Split(hs[i]) = <<>>

\* ExactMatch without the test of used
ExactMatchReuse(entry, sq, us) == entry \in DOMAIN sq

\* the exact-match test of the order loop
ExactMatch(entry, sq, us) == entry \in DOMAIN sq /\ entry \notin us

\* the inner for loop: first header of the list that is not in used
RECURSIVE FirstUnused(_, _)
FirstUnused(cands, us) ==
    IF cands = <<>> THEN [found |-> FALSE, choice |-> <<>>]
    ELSE IF Head(cands) \notin us THEN [found |-> TRUE, choice |-> Head(cands)]
    ELSE FirstUnused(Tail(cands), us)

\* the first-token lookup of the order loop; 'if choice' is the truth value
\* of the chosen string
TokenMatch(entry, idx, us) ==
    IF entry \in DOMAIN idx
    THEN LET r == FirstUnused(idx[entry], us)
         IN [found |-> r.found /\ r.choice # <<>>, choice |-> r.choice]
    ELSE [found |-> FALSE, choice |-> <<>>]

\* the lines the first output loop writes
RECURSIVE WriteAll(_, _, _)
WriteAll(hs, sq, w) ==
    IF hs = <<>> THEN <<>>
    ELSE write_seq(Head(hs), sq[Head(hs)], w) \o WriteAll(Tail(hs), sq, w)

\* IsLeftover without the test of used
IsLeftoverAlways(h, us) == TRUE

\* the test of the second output loop
IsLeftover(h, us) == h \notin us

\* Leftovers iterating over reversed(headers)
RECURSIVE LeftoversReversed(_, _)
LeftoversReversed(hs, us) ==
    IF hs = <<>> THEN <<>>
    ELSE LeftoversReversed(Tail(hs), us)
         \o (IF Head(hs) \notin us THEN <<Head(hs)>> ELSE <<>>)

\* the headers the second output loop writes
RECURSIVE Leftovers(_, _)
Leftovers(hs, us) ==
    IF hs = <<>> THEN <<>>
    ELSE (IF IsLeftover(Head(hs), us) THEN <<Head(hs)>> ELSE <<>>)
         \o Leftovers(Tail(hs), us)

\* sets of sequences over S of length lo..hi
SeqsOf(S, lo, hi) == UNION {[1..n -> S] : n \in lo..hi}

FastaLines ==
    { <<">", "a">>, <<">", " ", "a", " ", "b">>, <<">", "b">>, <<">">>,
      <<"A", "C">>, <<>> }

OrderLines ==
    { <<"a">>, <<">", "a", " ", "b">>, <<" ", "b">>, <<"#", "b">>, <<"z">> }

IdleW ==
    /\ w_header = <<>> /\ w_seq = <<>> /\ w_wrap = 0 /\ w_lines = <<>>
    /\ w_pc = "idle"

IdleS ==
    /\ s_lines = <<>> /\ s_pc = "idle" /\ g_pos = 0 /\ g_hasName = FALSE
    /\ g_name = <<>> /\ g_seq_lines = <<>> /\ g_susp = "start"
    /\ rec_name = <<>> /\ rec_seq = <<>> /\ rec_no = 0 /\ events = <<>>

IdleR ==
    /\ fasta = <<>> /\ orderFile = <<>> /\ wrap = 0 /\ pc = "idle" /\ run = 0
    /\ headers = <<>> /\ seqs = EmptyDict /\ name_to_headers = EmptyDict
    /\ order_list = <<>> /\ k = 0 /\ ordered_headers = <<>> /\ used = {}
    /\ not_found = <<>> /\ outLines = <<>> /\ appended = 0

\* state of main() before its first statement
MainStart ==
    /\ pc = "parse" /\ run = 1
    /\ headers = <<>> /\ seqs = EmptyDict /\ name_to_headers = EmptyDict
    /\ order_list = <<>> /\ k = 0 /\ ordered_headers = <<>> /\ used = {}
    /\ not_found = <<>> /\ outLines = <<>> /\ appended = 0

Init ==
    /\ fasta \in SeqsOf(FastaLines, 1, MaxFastaLines)
    /\ orderFile \in SeqsOf(OrderLines, 0, MaxOrderLines)
    /\ wrap = DefaultWrap
    /\ MainStart
    /\ IdleW /\ IdleS

\* headers, seqs = parse_fasta(args.fasta); exit(1) when there is no header
Parse ==
    /\ pc = "parse"
    /\ headers' = parse_fasta(fasta).headers
    /\ seqs' = parse_fasta(fasta).seqs
    /\ pc' = IF parse_fasta(fasta).headers = <<>> THEN "exit1" ELSE "index"
    /\ UNCHANGED <<fasta, orderFile, wrap, run, name_to_headers, order_list, k,
                   ordered_headers, used, not_found, outLines, appended,
                   wvars, svars>>

\* the loop that fills name_to_headers
BuildIndex ==
    /\ pc = "index"
    /\ IF IndexRaises(headers)
       THEN pc' = "raised" /\ UNCHANGED name_to_headers
       ELSE pc' = "read_order" /\ name_to_headers' = BuildNameIndex(headers)
    /\ UNCHANGED <<fasta, orderFile, wrap, run, headers, seqs, order_list, k,
                   ordered_headers, used, not_found, outLines, appended,
                   wvars, svars>>

\* order_list = read_order_list(args.order)
ReadOrder ==
    /\ pc = "read_order"
    /\ order_list' = read_order_list(orderFile)
    /\ pc' = "match"
    /\ UNCHANGED <<fasta, orderFile, wrap, run, headers, seqs, name_to_headers,
                   k, ordered_headers, used, not_found, outLines, appended,
                   wvars, svars>>

\* one iteration of 'for entry in order_list'
MatchEntry ==
    /\ pc = "match"
    /\ k < Len(order_list)
    /\ LET entry == order_list[k + 1]
           tm == TokenMatch(entry, name_to_headers, used)
       IN IF ExactMatch(entry, seqs, used)
          THEN /\ ordered_headers' = Append(ordered_headers, entry)
               /\ used' = used \cup {entry}
               /\ UNCHANGED not_found
          ELSE IF tm.found
          THEN /\ ordered_headers' = Append(ordered_headers, tm.choice)
               /\ used' = used \cup {tm.choice}
               /\ UNCHANGED not_found
          ELSE /\ not_found' = Append(not_found, entry)
               /\ UNCHANGED <<ordered_headers, used>>
    /\ k' = k + 1
    /\ UNCHANGED <<fasta, orderFile, wrap, pc, run, headers, seqs,
                   name_to_headers, order_list, outLines, appended, wvars, svars>>

\* open the output and write the ordered entries
WriteOrdered ==
    /\ pc = "match"
    /\ k = Len(order_list)
    /\ outLines' = WriteAll(ordered_headers, seqs, wrap)
    /\ appended' = 0
    /\ pc' = "leftover"
    /\ UNCHANGED <<fasta, orderFile, wrap, run, headers, seqs, name_to_headers,
                   order_list, k, ordered_headers, used, not_found, wvars, svars>>

\* append the remaining headers in original order, close the output
WriteLeftover ==
    /\ pc = "leftover"
    /\ outLines' = outLines \o WriteAll(Leftovers(headers, used), seqs, wrap)
    /\ appended' = appended + Len(Leftovers(headers, used))
    /\ pc' = "done"
    /\ UNCHANGED <<fasta, orderFile, wrap, run, headers, seqs, name_to_headers,
                   order_list, k, ordered_headers, used, not_found, wvars, svars>>

Next == Parse \/ BuildIndex \/ ReadOrder \/ MatchEntry \/ WriteOrdered \/ WriteLeftover

Spec == Init /\ [][Next]_vars

\* the tool is invoked again, with the same order list, on the file it wrote
Rerun ==
    /\ pc = "done"
    /\ run = 1
    /\ fasta' = outLines
    /\ run' = 2
    /\ pc' = "parse"
    /\ headers' = <<>> /\ seqs' = EmptyDict /\ name_to_headers' = EmptyDict
    /\ order_list' = <<>> /\ k' = 0 /\ ordered_headers' = <<>> /\ used' = {}
    /\ not_found' = <<>> /\ appended' = 0
    /\ UNCHANGED <<orderFile, wrap, outLines, wvars, svars>>

NextIdem ==
    Parse \/ BuildIndex \/ ReadOrder \/ MatchEntry \/ WriteOrdered
    \/ WriteLeftover \/ Rerun

SpecIdem == Init /\ [][NextIdem]_vars

\* an order file that lists the headers hs one per line, each line starting
\* with the text pre
OrderFileOf(hs, pre) == [i \in 1..Len(hs) |-> pre \o hs[i]]

RoundLines ==
    { <<">", "a">>, <<">", "a", " ", "b">>, <<">", "b", " ">>, <<">">>,
      <<"A", "C">>, <<"G">>, <<>> }

InitRound ==
    /\ fasta \in SeqsOf(RoundLines, 1, MaxRoundLines)
    /\ \E pre \in {<<>>, <<">">>} :
           orderFile = OrderFileOf(parse_fasta(fasta).headers, pre)
    /\ wrap \in {0, 1, DefaultWrap}
    /\ MainStart
    /\ IdleW /\ IdleS

SpecRound == InitRound /\ [][Next]_vars

(***************************************************************************)
(* write_seq called on its own                                             *)
(***************************************************************************)
Bases == {"A", "N"}

InitWrite ==
    /\ w_header \in {<<"a">>, <<"a", " ", "b">>}
    /\ w_seq \in SeqsOf(Bases, 0, MaxSeqLen)
    /\ w_wrap \in -1..MaxWrap
    /\ w_lines = <<>>
    /\ w_pc = "call"
    /\ IdleR /\ IdleS

CallWriteSeq ==
    /\ w_pc = "call"
    /\ w_lines' = write_seq(w_header, w_seq, w_wrap)
    /\ w_pc' = "written"
    /\ UNCHANGED <<w_header, w_seq, w_wrap, rvars, svars>>

NextWrite == CallWriteSeq

SpecWrite == InitWrite /\ [][NextWrite]_vars

(***************************************************************************)
(* checkforNs.py                                                           *)
(***************************************************************************)
\* the generator parse_fasta, resumed until its next yield.  g.susp tells
\* where it is suspended: "start" (not yet started), "loop" (at the yield
\* of the header line lines[g.pos + 1]) or "end" (at the final yield).
\* The result adds how it stopped: "yield", "stop" or "raise".
RECURSIVE GenLoop(_, _)
GenLoop(g, lines) ==
    IF g.pos >= Len(lines) THEN
        IF g.hasName
        THEN [g EXCEPT !.susp = "end", !.how = "yield"]
        ELSE [g EXCEPT !.susp = "end", !.how = "stop"]
    ELSE LET line == RStrip(lines[g.pos + 1]) IN
        IF line = <<>> THEN GenLoop([g EXCEPT !.pos = @ + 1], lines)
        ELSE IF StartsWith(line, ">") THEN
            IF g.hasName /\ g.susp # "resume"
            THEN [g EXCEPT !.susp = "loop", !.how = "yield"]
            ELSE IF Split(Tail(line)) = <<>>
            THEN [g EXCEPT !.how = "raise"]
            ELSE GenLoop([g EXCEPT !.pos = @ + 1, !.hasName = TRUE,
                                   !.name = Split(Tail(line))[1],
                                   !.seq_lines = <<>>, !.susp = "run"], lines)
        ELSE GenLoop([g EXCEPT !.pos = @ + 1,
                               !.seq_lines = Append(@, UpperText(line)),
                               !.susp = "run"], lines)

GenResume(g, lines) ==
    IF g.susp = "end" THEN [g EXCEPT !.how = "stop"]
    ELSE IF g.susp = "loop" THEN GenLoop([g EXCEPT !.susp = "resume"], lines)
    ELSE GenLoop([g EXCEPT !.susp = "run"], lines)

\* seq.count("N")
RECURSIVE CountN(_)
CountN(seq) ==
    IF seq = <<>> THEN 0
    ELSE (IF Head(seq) = "N" THEN 1 ELSE 0) + CountN(Tail(seq))

\* SkipRecord without the test
SkipRecordNever(total_Ns) == FALSE

\* 'if total_Ns == 0: continue'
SkipRecord(total_Ns) == total_Ns = 0

\* MatchEnd for the pattern N instead of N+
MatchEndSingle(seq, i) == i + 1

\* end (0-based, exclusive) of the greedy match of N+ that starts at 0-based i
RECURSIVE MatchEnd(_, _)
MatchEnd(seq, i) ==
    IF i < Len(seq) /\ seq[i + 1] = "N" THEN MatchEnd(seq, i + 1) ELSE i

\* re.finditer(r"N+", seq) from 0-based position i: the (m.start(), m.end())
\* of each match, leftmost first
RECURSIVE FindIter(_, _)
FindIter(seq, i) ==
    IF i >= Len(seq) THEN <<>>
    ELSE IF seq[i + 1] = "N"
    THEN <<<<i, MatchEnd(seq, i)>>>> \o FindIter(seq, MatchEnd(seq, i))
    ELSE FindIter(seq, i + 1)

\* the element appended to runs for a match: f"{s}-{e}"
RunText(m) == <<m[1] + 1, m[2]>>

\* BedRow with the length taken from the 1-based start
BedRowShort(name, m) ==
    [chrom |-> name, start |-> m[1], end |-> m[2],
     name |-> <<name, "Nrun", m[1] + 1, m[2]>>, N_len |-> m[2] - (m[1] + 1)]

\* the BED row written for a match
BedRow(name, m) ==
    [chrom |-> name, start |-> m[1], end |-> m[2],
     name |-> <<name, "Nrun", m[1] + 1, m[2]>>, N_len |-> m[2] - m[1]]

\* f"{frac:.6f}" as a number of millionths (round to nearest; no tie is
\* possible for a sequence shorter than 128)
FracText(total_Ns, seqlen) == (2 * 1000000 * total_Ns + seqlen) \div (2 * seqlen)

\* the TSV row written for a record
TsvRow(name, seq, ms) ==
    [contig |-> name, contig_len |-> Len(seq), total_Ns |-> CountN(seq),
     frac_N |-> FracText(CountN(seq), Len(seq)), n_N_runs |-> Len(ms),
     n_run_positions |-> [i \in 1..Len(ms) |-> RunText(ms[i])]]

ScanLines ==
    { <<">", "a">>, <<">", "b", " ", "c">>, <<">", " ">>, <<>>,
      <<"N">>, <<"A", "N">>, <<"n", "A", " ">>, <<"A">> }

InitScan ==
    /\ s_lines \in SeqsOf(ScanLines, 1, MaxScanLines)
    /\ s_pc = "open"
    /\ g_pos = 0 /\ g_hasName = FALSE /\ g_name = <<>> /\ g_seq_lines = <<>>
    /\ g_susp = "start"
    /\ rec_name = <<>> /\ rec_seq = <<>> /\ rec_no = 0
    /\ events = <<>>
    /\ IdleR /\ IdleW

\* the with statement opens the three files and writes the two header rows
OpenFiles ==
    /\ s_pc = "open"
    /\ events' = << [file |-> "tsv", rec |-> 0,
                     row |-> <<"contig", "contig_len", "total_Ns", "frac_N",
                               "n_N_runs", "n_run_positions">>],
                    [file |-> "bed", rec |-> 0,
                     row |-> <<"#chrom", "start", "end", "name", "N_len">>] >>
    /\ s_pc' = "iter"
    /\ UNCHANGED <<s_lines, g_pos, g_hasName, g_name, g_seq_lines, g_susp,
                   rec_name, rec_seq, rec_no, rvars, wvars>>

\* the for statement asks the generator for the next record
GenNext ==
    /\ s_pc = "iter"
    /\ LET g == GenResume([pos |-> g_pos, hasName |-> g_hasName, name |-> g_name,
                           seq_lines |-> g_seq_lines, susp |-> g_susp,
                           how |-> "none"], s_lines)
       IN /\ g_pos' = g.pos /\ g_hasName' = g.hasName /\ g_name' = g.name
          /\ g_seq_lines' = g.seq_lines /\ g_susp' = g.susp
          /\ IF g.how = "yield"
             THEN /\ rec_name' = g.name
                  /\ rec_seq' = Join(g.seq_lines)
                  /\ rec_no' = rec_no + 1
                  /\ s_pc' = "body"
             ELSE /\ UNCHANGED <<rec_name, rec_seq, rec_no>>
                  /\ s_pc' = IF g.how = "raise" THEN "raised" ELSE "done"
    /\ UNCHANGED <<s_lines, events, rvars, wvars>>

\* the body of the for loop
ScanRecord ==
    /\ s_pc = "body"
    /\ IF SkipRecord(CountN(rec_seq))
       THEN s_pc' = "iter" /\ UNCHANGED events
       ELSE IF Len(rec_seq) = 0
       THEN s_pc' = "zerodiv" /\ UNCHANGED events
       ELSE LET ms == FindIter(rec_seq, 0) IN
            /\ events' = events
                 \o [i \in 1..Len(ms) |->
                       [file |-> "bed", rec |-> rec_no, row |-> BedRow(rec_name, ms[i])]]
                 \o << [file |-> "tsv", rec |-> rec_no,
                        row |-> TsvRow(rec_name, rec_seq, ms)] >>
            /\ s_pc' = "iter"
    /\ UNCHANGED <<s_lines, g_pos, g_hasName, g_name, g_seq_lines, g_susp,
                   rec_name, rec_seq, rec_no, rvars, wvars>>

NextScan == OpenFiles \/ GenNext \/ ScanRecord

SpecScan == InitScan /\ [][NextScan]_vars

(***************************************************************************)
(* Properties of reordercontigs.py                                         *)
(***************************************************************************)
Count(s, x) == Cardinality({i \in 1..Len(s) : s[i] = x})

IsPermutation(a, b) ==
    /\ Len(a) = Len(b)
    /\ \A x \in Range(a) \cup Range(b) : Count(a, x) = Count(b, x)

NoDuplicates(s) == \A i, j \in 1..Len(s) : s[i] = s[j] => i = j

\* the headers of the header lines of the output file
OutHeaders == parse_fasta(outLines).headers

\* the records of a file by position: <<header, sequence>> of every header
\* line, the sequence being the text of the lines up to the next header line
RecordAdd(rs, line) ==
    IF line = <<>> THEN rs
    ELSE IF StartsWith(line, ">") THEN Append(rs, <<Strip(Tail(line)), <<>>>>)
    ELSE IF rs = <<>> THEN rs
    ELSE [rs EXCEPT ![Len(rs)][2] = @ \o Strip(line)]

RECURSIVE Records(_)
Records(lines) ==
    IF lines = <<>> THEN <<>>
    ELSE RecordAdd(Records(SubSeq(lines, 1, Len(lines) - 1)), lines[Len(lines)])

FirstToken(h) == Split(h)[1]

\* C1: when the reorder tool has written its output, the headers of the
\* output are a permutation of the headers parse_fasta found in the input:
\* every input header is written exactly once.
C1_HeadersPermuted ==
    pc = "done" => IsPermutation(OutHeaders, parse_fasta(fasta).headers)

\* hs can be matched, in order, with a subsequence of the entries es, each
\* header with an entry equal to it or to its first token
RECURSIVE Embeds(_, _)
Embeds(hs, es) ==
    IF hs = <<>> THEN TRUE
    ELSE IF es = <<>> THEN FALSE
    ELSE IF Head(hs) = Head(es) \/ FirstToken(Head(hs)) = Head(es)
    THEN Embeds(Tail(hs), Tail(es))
    ELSE Embeds(hs, Tail(es))

\* the headers no order entry consumed, in file order
UnconsumedInFileOrder ==
    LET Unconsumed(h) == h \notin Range(ordered_headers)
    IN SelectSeq(headers, Unconsumed)

C3_Step ==
    LET entry == order_list[k + 1]
        free == {i \in 1..Len(headers) : headers[i] \notin used}
        byToken == {i \in free : FirstToken(headers[i]) = entry}
        first == CHOOSE i \in byToken : \A j \in byToken : i <= j
    IN IF \E i \in free : headers[i] = entry
       THEN /\ ordered_headers' = Append(ordered_headers, entry)
            /\ used' = used \cup {entry}
            /\ not_found' = not_found
       ELSE IF byToken # {}
       THEN /\ ordered_headers' = Append(ordered_headers, headers[first])
            /\ used' = used \cup {headers[first]}
            /\ not_found' = not_found
       ELSE /\ ordered_headers' = ordered_headers
            /\ used' = used
            /\ not_found' = Append(not_found, entry)

\* C3: every order entry resolves to the header equal to it if that header
\* is not consumed, else to the first header in file order with that first
\* token that is not consumed, else it goes to not_found; the resolved header
\* is added to used, so after any prefix of entries ordered_headers has no
\* header twice and the entries processed are len(ordered_headers) +
\* len(not_found).
C3_MatchingPolicy ==
    /\ [][pc = "match" /\ k' = k + 1 => C3_Step]_vars
    /\ [](pc \in {"match", "leftover", "done"} =>
            /\ NoDuplicates(ordered_headers)
            /\ used = Range(ordered_headers)
            /\ k = Len(ordered_headers) + Len(not_found))

C3_Witness ==
    /\ pc = "match"
    /\ k = 2
    /\ order_list[1] = order_list[2]
    /\ Len(ordered_headers) = 2
    /\ ordered_headers[2] # order_list[2]

\* C4: when the order file lists the headers of the input one per line in
\* file order, the output has the same records (header and sequence) in the
\* same order as the input and no entry is reported as not found.
C4_RoundTrip ==
    pc = "done" => not_found = <<>> /\ Records(outLines) = Records(fasta)

\* C5: the tool run on its own output with the same order list writes the
\* headers in the order of the file it read.
C5_Idempotent ==
    (run = 2 /\ pc = "done") => OutHeaders = parse_fasta(fasta).headers

C5_Witness ==
    /\ run = 2
    /\ pc = "done"
    /\ Len(ordered_headers) >= 1
    /\ appended >= 2
    /\ not_found # <<>>

\* C8: write_seq writes '>' + header, then for W > 0 the sequence in lines
\* of exactly W characters, the last one of 1..W characters, whose
\* concatenation is the sequence; for W <= 0 the sequence as one line.
C8_WriteSeq ==
    w_pc = "written" =>
        LET body == Tail(w_lines) IN
        /\ Len(w_lines) >= 1
        /\ w_lines[1] = <<">">> \o w_header
        /\ IF w_wrap > 0
           THEN /\ \A i \in 1..(Len(body) - 1) : Len(body[i]) = w_wrap
                /\ body # <<>> => Len(body[Len(body)]) \in 1..w_wrap
                /\ Join(body) = w_seq
           ELSE body = <<w_seq>>

C8_Witness ==
    /\ w_pc = "written"
    /\ w_wrap = 2
    /\ Len(w_seq) = 3
    /\ Len(w_lines) = 3

(***************************************************************************)
(* Properties of checkforNs.py                                             *)
(***************************************************************************)
\* the rows of one report written for record r, in write order
RowsOf(f, r) ==
    LET Sel(e) == e.file = f /\ e.rec = r
        sel == SelectSeq(events, Sel)
    IN [i \in 1..Len(sel) |-> sel[i].row]

RECURSIVE SumNLen(_)
SumNLen(rows) == IF rows = <<>> THEN 0 ELSE Head(rows).N_len + SumNLen(Tail(rows))

\* the records the loop body has finished
Finished == IF s_pc = "body" THEN rec_no - 1 ELSE rec_no

\* C6: the runs reported for a record cover exactly the positions of its
\* upper-cased sequence that hold N, no two runs overlap or touch, they are
\* in ascending order, and the BED rows give the same runs, in the same
\* order, as 0-based half-open intervals.
C6_RunsCoverExactlyN ==
    rec_no >= 1 => \A t \in Range(RowsOf("tsv", rec_no)) :
        LET runs == t.n_run_positions
            beds == RowsOf("bed", rec_no)
        IN /\ {p \in 1..Len(rec_seq) : \E i \in 1..Len(runs) :
                    runs[i][1] <= p /\ p <= runs[i][2]}
                = {p \in 1..Len(rec_seq) : rec_seq[p] = "N"}
           /\ \A i \in 1..Len(runs) : 1 <= runs[i][1] /\ runs[i][1] <= runs[i][2]
                                       /\ runs[i][2] <= Len(rec_seq)
           /\ \A i \in 1..(Len(runs) - 1) : runs[i][2] + 1 < runs[i + 1][1]
           /\ Len(beds) = Len(runs)
           /\ \A i \in 1..Len(runs) : /\ beds[i].start = runs[i][1] - 1
                                       /\ beds[i].end = runs[i][2]

C6_Witness ==
    /\ rec_no >= 1
    /\ \E t \in Range(RowsOf("tsv", rec_no)) :
          /\ Len(t.n_run_positions) >= 2
          /\ \E i \in 1..Len(t.n_run_positions) :
                t.n_run_positions[i][2] > t.n_run_positions[i][1]

\* C7: for every record written to the TSV, total_Ns is the sum of the
\* N_len of the BED rows of that record and n_N_runs is their number.
C7_TotalsMatchBed ==
    \A r \in 1..rec_no : \A t \in Range(RowsOf("tsv", r)) :
        /\ t.total_Ns = SumNLen(RowsOf("bed", r))
        /\ t.n_N_runs = Len(RowsOf("bed", r))

C7_Witness ==
    \E r \in 1..rec_no : \E t \in Range(RowsOf("tsv", r)) :
        t.n_N_runs >= 2 /\ t.total_Ns >= 3

\* the header lines of the input, by line number
HeaderLineNos == {i \in 1..Len(s_lines) : StartsWith(RStrip(s_lines[i]), ">")}

\* the line number of the r-th header line
HeaderLineNo(r) ==
    CHOOSE i \in HeaderLineNos : Cardinality({j \in HeaderLineNos : j <= i}) = r

\* the r-th record of the input has an N or an n in one of its lines
RecordHasN(r) ==
    LET from == HeaderLineNo(r)
        to == IF r < Cardinality(HeaderLineNos)
              THEN HeaderLineNo(r + 1) ELSE Len(s_lines) + 1
    IN \E j \in (from + 1)..(to - 1) : \E c \in Range(s_lines[j]) : c \in {"N", "n"}

\* C9: the TSV has exactly one row for every parsed record with an N (or a
\* lowercase n in the input), in file order; a record without N has no TSV
\* row and no BED row; the BED rows of a record are written before its TSV
\* row and before any row of a later record.
C9_RowsExactlyForRecordsWithN ==
    /\ rec_no <= Cardinality(HeaderLineNos)
    /\ s_pc = "done" => rec_no = Cardinality(HeaderLineNos)
    /\ \A r \in 1..Finished :
          /\ Len(RowsOf("tsv", r)) = (IF RecordHasN(r) THEN 1 ELSE 0)
          /\ ~RecordHasN(r) => RowsOf("bed", r) = <<>>
          /\ \A t \in Range(RowsOf("tsv", r)) :
                t.contig = FirstToken(Tail(RStrip(s_lines[HeaderLineNo(r)])))
    /\ \A p \in 1..Len(events) : events[p].rec \in 0..Finished
    /\ \A p, q \in 1..Len(events) :
          (p < q /\ events[p].rec >= 1) =>
              /\ events[p].rec <= events[q].rec
              /\ events[p].file = "tsv" => events[p].rec < events[q].rec

C9_Witness ==
    /\ s_pc = "done"
    /\ rec_no >= 2
    /\ RowsOf("tsv", 1) = <<>>
    /\ RowsOf("tsv", 2) # <<>>
    /\ \A j \in 1..Len(s_lines) : "N" \notin Range(s_lines[j])

\* C10: the fraction is never computed for a sequence of length 0: a record
\* with an empty sequence is skipped before the division.
C10_NoZeroDivision == s_pc # "zerodiv"

C10_Witness ==
    /\ s_pc = "iter"
    /\ rec_no >= 1
    /\ rec_seq = <<>>
    /\ RowsOf("tsv", rec_no) = <<>>

====
